---- MODULE Spec2Model ----
(***************************************************************************)
(* RayTracingAccelerationStructurePass (Atom, O3DE): the per-frame build   *)
(* and update of the ray tracing acceleration structures.                  *)
(*                                                                         *)
(* A frame is FrameBeginInternal, then SetupFrameGraphDependencies (the    *)
(* frame graph's dependency-declaration phase), then BuildCommandList (its *)
(* command-emission phase).  Between frames the RayTracingFeatureProcessor *)
(* changes the scene: it owns the sub-mesh vector, the BLAS instance map,  *)
(* the TLAS and the revision.                                              *)
(***************************************************************************)
EXTENDS Integers, Sequences, FiniteSets, TLC

\* ------------------------------------------------------------------ bounds

\* mesh assets the scene can hold (keys of the BLAS instance map)
NumAssets == 3

\* sub-meshes of one mesh
MaxSubMeshes == 2

\* scene changes (revision bumps) of one behaviour
MaxRevision == 2

\* width of the frame counter (uint32_t in the program, scaled down)
FrameCountBits == 3

\* width of size_t, the type of the rebuild key (64 in the program, scaled down)
SizeBits == 4

\* ------------------------------------------------ constants of the program

\* declared in RayTracingAccelerationStructurePass.h; the value is the one of
\* the specification's scenario
SKINNED_BLAS_REBUILD_FRAME_INTERVAL == 4

Assets == 1..NumAssets

FrameCountModulus == 2 ^ FrameCountBits

SizeModulus == 2 ^ SizeBits

\* ------------------------------------------------------------------- state

VARIABLES
    pc,                   \* position in the frame: idle, setup, build, done, halted
    m_enabled,            \* Pass::SetEnabled: false on a device without ray tracing
    m_rayTracingRevision, \* the pass's last-processed revision
    m_frameCount,         \* the pass's frame counter
    hasFeatureProcessor,  \* scene->GetFeatureProcessor<RayTracingFeatureProcessor>() != null
    revision,             \* RayTracingFeatureProcessor::GetRevision()
    subMeshes,            \* RayTracingFeatureProcessor::GetSubMeshes()
    blasInstances,        \* RayTracingFeatureProcessor::GetBlasInstances()
    tlas,                 \* RayTracingFeatureProcessor::GetTlas(): its buffer and descriptor
    frame,                \* what the frame's phase 1 did (frame graph and SRG calls)
    commands,             \* the command list of the frame
    tlasBuildCount,       \* TLAS build commands emitted so far, modulo the counter's width
    frameStart,           \* the state the frame started from
    history,              \* per skinned instance, its BLAS commands of the last frames
    failure               \* the fatal condition that halted the pass, or "none"

vars == <<pc, m_enabled, m_rayTracingRevision, m_frameCount, hasFeatureProcessor,
          revision, subMeshes, blasInstances, tlas, frame, commands,
          tlasBuildCount, frameStart, history, failure>>

passVars == <<m_enabled, m_rayTracingRevision, m_frameCount>>

sceneVars == <<hasFeatureProcessor, revision, subMeshes, blasInstances>>

\* ------------------------------------------------- the feature processor

\* AZ::Uuid::GetHash of an asset's guid: a size_t
GetHash(a) == (7 * a + 8) % SizeModulus

\* RayTracingFeatureProcessor::GetSubMeshCount
GetSubMeshCount(meshes) == Len(meshes)

\* RayTracingFeatureProcessor::GetSkinnedMeshCount
GetSkinnedMeshCount(instances) ==
    Cardinality({a \in DOMAIN instances : instances[a].m_isSkinnedMesh})

\* the alpha of a sub-mesh's m_irradianceColor, in tenths: opaque or not
IrradianceAlpha(a, i) == IF (a + i) % 2 = 0 THEN 10 ELSE 5

\* the sub-meshes a mesh adds to the sub-mesh vector
MeshSubMeshes(a, n) ==
    [i \in 1..n |->
        [m_mesh |-> a, m_blas |-> <<a, i - 1>>, alpha |-> IrradianceAlpha(a, i)]]

\* the number of sub-meshes of the mesh of asset a: the meshes of the scene
\* have 0, MaxSubMeshes, MaxSubMeshes - 1, ... sub-meshes
SubMeshCountOf(a) == (NumAssets * (MaxSubMeshes + 1) - a + 1) % (MaxSubMeshes + 1)

\* the BlasInstance of a new mesh: its sub-mesh BLAS objects, not built
NewBlasInstance(a, n, skinned) ==
    [m_subMeshes |-> [i \in 1..n |-> <<a, i - 1>>],
     m_blasBuilt |-> FALSE,
     m_isSkinnedMesh |-> skinned]

\* the sub-mesh vector without the sub-meshes of mesh a
RECURSIVE WithoutMesh(_, _)
WithoutMesh(meshes, a) ==
    IF meshes = <<>> THEN <<>>
    ELSE IF Head(meshes).m_mesh = a THEN WithoutMesh(Tail(meshes), a)
    ELSE <<Head(meshes)>> \o WithoutMesh(Tail(meshes), a)

\* RHI::RayTracingTlas before the first CreateBuffers
NoTlas == [buffer |-> FALSE, descriptor |-> <<>>]

\* RHI::RayTracingTlas::CreateBuffers: the buffers follow the descriptor; a
\* descriptor with no instance may leave the TLAS without a buffer
CreateBuffers(descriptor, emptyHasBuffer) ==
    [buffer |-> IF descriptor = <<>> THEN emptyHasBuffer ELSE TRUE,
     descriptor |-> descriptor]

\* ---------------------------------------------------------------- the pass

\* lines 69-86: the TLAS descriptor, one instance per sub-mesh
RECURSIVE TlasDescriptorLoop(_, _)
TlasDescriptorLoop(meshes, instanceIndex) ==
    IF meshes = <<>> THEN <<>>
    ELSE <<[InstanceID |-> instanceIndex,
            Mesh |-> Head(meshes).m_mesh,
            HitGroupIndex |-> 0,
            Blas |-> Head(meshes).m_blas,
            Transparent |-> Head(meshes).alpha < 10]>>
         \o TlasDescriptorLoop(Tail(meshes), instanceIndex + 1)

\* lines 69-86 with the instance index starting at one
BuildTlasDescriptor_FromOne(meshes) == TlasDescriptorLoop(meshes, 1)

\* lines 69-86
BuildTlasDescriptor(meshes) == TlasDescriptorLoop(meshes, 0)

\* the frame's phase-1 record before SetupFrameGraphDependencies: the calls
\* made on the frame graph, each with its result, and on the SRGs
NoFrame ==
    [tlasCreated |-> FALSE, tlasImport |-> "none", tlasWrite |-> "none",
     skinnedRead |-> "none", srgUpdates |-> 0,
     \* what IsAttachmentValid answered, and what UpdateRayTracingSrgs found
     tlasAttachmentQuery |-> "none", srgSaw |-> <<>>]

\* RHI::ResultCode, as far as the pass tells the codes apart
ResultCodes == {"Success", "Fail"}

\* line 62 without the comparison: the TLAS re-created every frame
RevisionChanged_Always(currentRevision, lastRevision) == TRUE

\* line 62: the TLAS is re-created when the revision moved
RevisionChanged(currentRevision, lastRevision) == currentRevision # lastRevision

\* line 94 without the sub-mesh count
TlasAttachNeeded_NoCount(tlasBuffer, rayTracingSubMeshCount) == tlasBuffer

\* line 94: the TLAS buffer is attached when it exists and there are sub-meshes
TlasAttachNeeded(tlasBuffer, rayTracingSubMeshCount) ==
    tlasBuffer /\ rayTracingSubMeshCount # 0

\* line 117 with the threshold one too high
SkinnedAttachNeeded_MoreThanOne(skinnedMeshCount) == skinnedMeshCount > 1

\* line 117: the skinning output is attached when there are skinned meshes
SkinnedAttachNeeded(skinnedMeshCount) == skinnedMeshCount > 0

\* lines 62-113: the revision block.  in: the inputs of the frame graph
SetupTlas(in) ==
    IF ~RevisionChanged(revision, m_rayTracingRevision)
    THEN [tlas |-> tlas, frame |-> NoFrame, failure |-> "none"]
    ELSE
      LET created == CreateBuffers(BuildTlasDescriptor(subMeshes), in.emptyHasBuffer)
          attach == TlasAttachNeeded(created.buffer, GetSubMeshCount(subMeshes))
          import == attach /\ ~in.attachmentValid
          \* line 100: AZ_Assert on the import's result
          asserted == import /\ in.importResult # "Success" /\ in.assertsEnabled
      IN  [tlas |-> created,
           frame |-> [NoFrame EXCEPT
                        !.tlasCreated = TRUE,
                        !.tlasAttachmentQuery =
                            IF ~attach THEN "none"
                            ELSE IF in.attachmentValid THEN "valid" ELSE "invalid",
                        !.tlasImport = IF import THEN in.importResult ELSE "none",
                        !.tlasWrite = IF attach /\ ~asserted THEN in.writeResult
                                      ELSE "none"],
           failure |-> IF asserted THEN "ImportBufferAssert" ELSE "none"]

\* lines 115-123: the skinning pass's output.  s: the outcome of SetupTlas
SetupSkinning(s, in) ==
    IF s.failure # "none" \/ ~SkinnedAttachNeeded(GetSkinnedMeshCount(blasInstances))
    THEN s
    ELSE IF ~in.hasSkinningPass
    THEN [s EXCEPT !.failure = "NullSkinningPass"]
    ELSE IF ~in.hasBinding
    THEN [s EXCEPT !.failure = "NullAttachmentBinding"]
    ELSE [s EXCEPT !.frame.skinnedRead = in.readResult,
                   \* line 122: AZ_Assert on the declaration's result
                   !.failure = IF in.readResult # "Success" /\ in.assertsEnabled
                               THEN "UseShaderAttachmentAssert" ELSE "none"]

\* the TLAS and the declarations UpdateRayTracingSrgs finds
SrgView(tlasNow, frameNow) ==
    [tlas |-> tlasNow, tlasWrite |-> frameNow.tlasWrite,
     skinnedRead |-> frameNow.skinnedRead]

\* line 129 moved to the top of the function, ahead of line 62
SetupSrgs_AheadOfTlas(s) ==
    IF s.failure # "none" THEN s
    ELSE [s EXCEPT !.frame.srgUpdates = @ + 1,
                   !.frame.srgSaw = <<SrgView(tlas, NoFrame)>>]

\* line 129: UpdateRayTracingSrgs
SetupSrgs(s) ==
    IF s.failure # "none" THEN s
    ELSE [s EXCEPT !.frame.srgUpdates = @ + 1,
                   !.frame.srgSaw = <<SrgView(s.tlas, s.frame)>>]

\* the answers of the frame graph, the RHI and the build to one
\* SetupFrameGraphDependencies when nothing fails
GoodSetupInputs ==
    [emptyHasBuffer : BOOLEAN, attachmentValid : BOOLEAN, importResult : {"Success"},
     writeResult : {"Success"}, hasSkinningPass : {TRUE}, hasBinding : {TRUE},
     readResult : {"Success"}, assertsEnabled : BOOLEAN]

\* the answers of one frame: all good, or one of them a failure
SetupInputs ==
    GoodSetupInputs
    \cup {[in EXCEPT !.importResult = "Fail"] : in \in GoodSetupInputs}
    \cup {[in EXCEPT !.writeResult = "Fail"] : in \in GoodSetupInputs}
    \cup {[in EXCEPT !.hasSkinningPass = FALSE] : in \in GoodSetupInputs}
    \cup {[in EXCEPT !.hasBinding = FALSE] : in \in GoodSetupInputs}
    \cup {[in EXCEPT !.readResult = "Fail"] : in \in GoodSetupInputs}

Init ==
    /\ pc = "idle"
    /\ m_enabled \in BOOLEAN
    /\ m_rayTracingRevision = 0
    /\ m_frameCount = 0
    /\ hasFeatureProcessor \in BOOLEAN
    /\ revision = 0
    /\ subMeshes = <<>>
    /\ blasInstances = [a \in {} |-> 0]
    /\ tlas = NoTlas
    /\ frame = NoFrame
    /\ commands = <<>>
    /\ tlasBuildCount = 0
    /\ frameStart = <<>>
    /\ history = [a \in {} |-> <<>>]
    /\ failure = "none"

\* RayTracingFeatureProcessor::AddMesh
AddMesh ==
    /\ pc = "idle"
    /\ hasFeatureProcessor
    /\ revision < MaxRevision
    /\ \E a \in Assets \ DOMAIN blasInstances, skinned \in BOOLEAN :
          /\ subMeshes' = subMeshes \o MeshSubMeshes(a, SubMeshCountOf(a))
          /\ blasInstances' =
                 [b \in DOMAIN blasInstances \cup {a} |->
                     IF b = a THEN NewBlasInstance(a, SubMeshCountOf(a), skinned) ELSE blasInstances[b]]
          /\ history' = [b \in DOMAIN history \cup {a} |->
                             IF b = a THEN <<>> ELSE history[b]]
    /\ revision' = revision + 1
    /\ UNCHANGED <<pc, passVars, hasFeatureProcessor, tlas, frame, commands,
                   tlasBuildCount, frameStart, failure>>

\* RayTracingFeatureProcessor::RemoveMesh
RemoveMesh ==
    /\ pc = "idle"
    /\ hasFeatureProcessor
    /\ revision < MaxRevision
    /\ \E a \in DOMAIN blasInstances :
          /\ subMeshes' = WithoutMesh(subMeshes, a)
          /\ blasInstances' = [b \in DOMAIN blasInstances \ {a} |-> blasInstances[b]]
          /\ history' = [b \in DOMAIN history \ {a} |-> history[b]]
    /\ revision' = revision + 1
    /\ UNCHANGED <<pc, passVars, hasFeatureProcessor, tlas, frame, commands,
                   tlasBuildCount, frameStart, failure>>

\* RayTracingFeatureProcessor: a change that keeps the meshes (a transform)
TouchScene ==
    /\ pc = "idle"
    /\ hasFeatureProcessor
    /\ revision < MaxRevision
    /\ revision' = revision + 1
    /\ UNCHANGED <<pc, passVars, hasFeatureProcessor, subMeshes, blasInstances,
                   tlas, frame, commands, tlasBuildCount, frameStart, history,
                   failure>>

\* lines 48-51: the pass joins the frame graph of the frame
FrameBeginInternal ==
    /\ pc = "idle"
    /\ m_enabled
    /\ pc' = "setup"
    /\ frameStart' = <<[m_rayTracingRevision |-> m_rayTracingRevision,
                        m_frameCount |-> m_frameCount,
                        revision |-> revision,
                        blasInstances |-> blasInstances,
                        tlas |-> tlas]>>
    /\ UNCHANGED <<passVars, sceneVars, tlas, frame, commands, tlasBuildCount,
                   history, failure>>

\* lines 53-131
SetupFrameGraphDependencies ==
    /\ pc = "setup"
    /\ \E in \in SetupInputs :
          LET s == IF hasFeatureProcessor
                   THEN SetupSrgs(SetupSkinning(SetupTlas(in), in))
                   ELSE [tlas |-> tlas, frame |-> NoFrame, failure |-> "none"]
          IN  /\ tlas' = s.tlas
              /\ frame' = s.frame
              /\ failure' = s.failure
              /\ pc' = IF s.failure = "none" THEN "build" ELSE "halted"
    /\ UNCHANGED <<passVars, sceneVars, commands, tlasBuildCount, frameStart, history>>

\* line 148 with the skinned mesh count tested the wrong way round
TlasUpToDate_WrongCount(currentRevision, lastRevision, skinnedMeshCount) ==
    currentRevision = lastRevision /\ skinnedMeshCount # 0

\* line 148: nothing changed since the last processed frame
TlasUpToDate(currentRevision, lastRevision, skinnedMeshCount) ==
    currentRevision = lastRevision /\ skinnedMeshCount = 0

\* line 155 storing a revision the pass has not seen
StoredRevision_Next(currentRevision, lastRevision) == currentRevision + 1

\* line 155 without the assignment
StoredRevision_Kept(currentRevision, lastRevision) == lastRevision

\* line 155: the revision the pass stores as processed
StoredRevision(currentRevision, lastRevision) == currentRevision

\* line 168 with every instance worked on
NeedsBlasWork_Always(instance) == TRUE

\* line 168 without the skinned meshes
NeedsBlasWork_UnbuiltOnly(instance) == instance.m_blasBuilt = FALSE

\* line 168: the instances the loop works on
NeedsBlasWork(instance) ==
    instance.m_blasBuilt = FALSE \/ instance.m_isSkinnedMesh

\* lines 173-194 with the frame counter left out of the key
BlasCommand_NoFrameCount(blasBuilt, isSkinnedMesh, assetGuid, submeshIndex, frameCount) ==
    IF blasBuilt = FALSE
    THEN "BuildBlas"
    ELSE IF isSkinnedMesh
            /\ ((assetGuid + submeshIndex) % SizeModulus)
                   % SKINNED_BLAS_REBUILD_FRAME_INTERVAL # 0
    THEN "UpdateBlas"
    ELSE "BuildBlas"

\* lines 173-194 with the sub-mesh index left out of the key
BlasCommand_NoIndex(blasBuilt, isSkinnedMesh, assetGuid, submeshIndex, frameCount) ==
    IF blasBuilt = FALSE
    THEN "BuildBlas"
    ELSE IF isSkinnedMesh
            /\ ((assetGuid + frameCount) % SizeModulus)
                   % SKINNED_BLAS_REBUILD_FRAME_INTERVAL # 0
    THEN "UpdateBlas"
    ELSE "BuildBlas"

\* lines 173-194 without the test of the 'built' flag on line 173
BlasCommand_UpdateUnbuilt(blasBuilt, isSkinnedMesh, assetGuid, submeshIndex, frameCount) ==
    IF isSkinnedMesh
          /\ ((assetGuid + submeshIndex + frameCount) % SizeModulus)
                 % SKINNED_BLAS_REBUILD_FRAME_INTERVAL # 0
    THEN "UpdateBlas"
    ELSE "BuildBlas"

\* lines 173-194: the command for one sub-mesh BLAS; the key is a size_t
BlasCommand(blasBuilt, isSkinnedMesh, assetGuid, submeshIndex, frameCount) ==
    IF blasBuilt = FALSE
    THEN "BuildBlas"
    ELSE IF isSkinnedMesh
            /\ ((assetGuid + submeshIndex + frameCount) % SizeModulus)
                   % SKINNED_BLAS_REBUILD_FRAME_INTERVAL # 0
    THEN "UpdateBlas"
    ELSE "BuildBlas"

\* lines 170-195: the loop over the sub-meshes of one instance; a command
\* carries the value of the frame counter it was emitted under
InstanceCommands(a, instance, frameCount) ==
    [i \in 1..Len(instance.m_subMeshes) |->
        [op |-> BlasCommand(instance.m_blasBuilt, instance.m_isSkinnedMesh,
                            GetHash(a), i - 1, frameCount),
         blas |-> instance.m_subMeshes[i],
         frameCount |-> frameCount]]

\* line 197 without the assignment
MarkBuilt_Forgotten(instance) == instance

\* line 197
MarkBuilt(instance) == [instance EXCEPT !.m_blasBuilt = TRUE]

\* lines 165-199: the loop over the instance map, in the map's order
RECURSIVE BlasLoop(_, _, _)
BlasLoop(order, instances, frameCount) ==
    IF order = <<>> THEN <<>>
    ELSE (IF NeedsBlasWork(instances[Head(order)])
          THEN InstanceCommands(Head(order), instances[Head(order)], frameCount)
          ELSE <<>>)
         \o BlasLoop(Tail(order), instances, frameCount)

\* lines 165-199: the instance map after the loop
BlasLoopInstances(instances) ==
    [a \in DOMAIN instances |->
        IF NeedsBlasWork(instances[a]) THEN MarkBuilt(instances[a]) ELSE instances[a]]

\* line 202
TlasCommand(frameCount) ==
    [op |-> "BuildTlas", blas |-> <<>>, frameCount |-> frameCount]

\* lines 163-204 with the TLAS build ahead of the BLAS loop
Emission_TlasFirst(order, instances, frameCount) ==
    [commands |-> <<TlasCommand(frameCount)>> \o BlasLoop(order, instances, frameCount),
     m_frameCount |-> (frameCount + 1) % FrameCountModulus]

\* lines 163-204 without the increment of the frame counter
Emission_NoIncrement(order, instances, frameCount) ==
    [commands |-> BlasLoop(order, instances, frameCount) \o <<TlasCommand(frameCount)>>,
     m_frameCount |-> frameCount]

\* lines 163-204: the BLAS commands, the TLAS build, then the frame counter
Emission(order, instances, frameCount) ==
    [commands |-> BlasLoop(order, instances, frameCount) \o <<TlasCommand(frameCount)>>,
     m_frameCount |-> (frameCount + 1) % FrameCountModulus]

\* the orders an unordered map of these keys can iterate in
MapOrders(keys) ==
    {order \in [1..Cardinality(keys) -> keys] :
        \A a \in keys : \E i \in DOMAIN order : order[i] = a}

\* the commands of a command list with the given op
CommandsWithOp(list, op) == SelectSeq(list, LAMBDA c : c.op = op)

\* the BLAS commands a command list holds for instance a, by sub-mesh
InstanceOps(list, a) ==
    LET own == SelectSeq(list, LAMBDA c : c.op # "BuildTlas" /\ c.blas[1] = a)
    IN  [i \in 1..Len(own) |-> own[i].op]

\* the elements of a sequence
Range(seq) == {seq[i] : i \in DOMAIN seq}

\* the last n elements of a sequence
LastOf(seq, n) ==
    IF Len(seq) <= n THEN seq ELSE SubSeq(seq, Len(seq) - n + 1, Len(seq))

\* the frame's entry in the history of the skinned instances
Recorded(instances, list) ==
    [a \in DOMAIN history |->
        IF instances[a].m_isSkinnedMesh
        THEN LastOf(Append(history[a],
                           [built |-> instances[a].m_blasBuilt,
                            ops |-> InstanceOps(list, a)]),
                    SKINNED_BLAS_REBUILD_FRAME_INTERVAL)
        ELSE history[a]]

\* lines 133-205
BuildCommandList ==
    /\ pc = "build"
    /\ pc' = "done"
    /\ IF \/ ~hasFeatureProcessor
          \/ ~tlas.buffer
          \/ TlasUpToDate(revision, m_rayTracingRevision,
                          GetSkinnedMeshCount(blasInstances))
       THEN /\ history' = Recorded(blasInstances, <<>>)
            /\ UNCHANGED <<m_rayTracingRevision, m_frameCount, blasInstances,
                           commands, tlasBuildCount>>
       ELSE /\ m_rayTracingRevision' = StoredRevision(revision, m_rayTracingRevision)
            /\ IF GetSubMeshCount(subMeshes) = 0
               THEN /\ history' = Recorded(blasInstances, <<>>)
                    /\ UNCHANGED <<m_frameCount, blasInstances, commands,
                                   tlasBuildCount>>
               ELSE \E order \in MapOrders(DOMAIN blasInstances) :
                      LET e == Emission(order, blasInstances, m_frameCount)
                      IN  /\ commands' = e.commands
                          /\ m_frameCount' = e.m_frameCount
                          /\ blasInstances' = BlasLoopInstances(blasInstances)
                          /\ tlasBuildCount' =
                                 (tlasBuildCount + Len(CommandsWithOp(e.commands, "BuildTlas")))
                                    % FrameCountModulus
                          /\ history' = Recorded(blasInstances, e.commands)
    /\ UNCHANGED <<m_enabled, hasFeatureProcessor, revision, subMeshes, tlas, frame,
                   frameStart, failure>>

\* the frame graph is done with the frame
FrameEnd ==
    /\ pc = "done"
    /\ pc' = "idle"
    /\ frame' = NoFrame
    /\ commands' = <<>>
    /\ frameStart' = <<>>
    /\ UNCHANGED <<passVars, sceneVars, tlas, tlasBuildCount, history, failure>>

Next ==
    \/ AddMesh
    \/ RemoveMesh
    \/ TouchScene
    \/ FrameBeginInternal
    \/ SetupFrameGraphDependencies
    \/ BuildCommandList
    \/ FrameEnd

Spec == Init /\ [][Next]_vars

\* the frame graph runs the enabled pass frame after frame: each step of a frame
\* that can be taken is taken in the end
FairSpec ==
    /\ Spec
    /\ WF_vars(FrameBeginInternal)
    /\ WF_vars(SetupFrameGraphDependencies)
    /\ WF_vars(BuildCommandList)
    /\ WF_vars(FrameEnd)

\* ------------------------------------------------------------------ claims

\* the state the current frame started from
AtFrameStart == frameStart[1]

\* the frame has run BuildCommandList
FrameDone == pc = "done"

\* the command list holds a TLAS build
EmitsTlasBuild(list) == CommandsWithOp(list, "BuildTlas") # <<>>

\* C1: a frame that starts with the feature processor's revision equal to the
\* last-processed revision and no skinned mesh emits no command and leaves the
\* last-processed revision, the frame counter, every 'built' flag and the
\* TLAS (never re-created) as they were at its start.
C1_UnchangedFrameIsNoOp ==
    (/\ pc \in {"build", "done"}
     /\ hasFeatureProcessor
     /\ AtFrameStart.revision = AtFrameStart.m_rayTracingRevision
     /\ GetSkinnedMeshCount(AtFrameStart.blasInstances) = 0)
    => /\ commands = <<>>
       /\ ~frame.tlasCreated
       /\ tlas = AtFrameStart.tlas
       /\ m_rayTracingRevision = AtFrameStart.m_rayTracingRevision
       /\ m_frameCount = AtFrameStart.m_frameCount
       /\ blasInstances = AtFrameStart.blasInstances

\* C1's case: such a frame has ended over a built scene whose TLAS has a buffer
C1_Witness ==
    /\ FrameDone
    /\ hasFeatureProcessor
    /\ AtFrameStart.revision = AtFrameStart.m_rayTracingRevision
    /\ GetSkinnedMeshCount(AtFrameStart.blasInstances) = 0
    /\ tlas.buffer
    /\ GetSubMeshCount(subMeshes) > 0
    /\ \E a \in DOMAIN blasInstances : blasInstances[a].m_blasBuilt

\* C2: after a frame that started with the feature processor's revision different
\* from the last-processed revision, the last-processed revision equals the
\* revision once BuildCommandList has returned.
C2_ChangedRevisionIsStored ==
    (/\ FrameDone
     /\ hasFeatureProcessor
     /\ AtFrameStart.revision # AtFrameStart.m_rayTracingRevision)
    => m_rayTracingRevision = revision

\* C3: a frame whose BuildCommandList emits the TLAS build has declared the write
\* dependency on the TLAS buffer attachment in its SetupFrameGraphDependencies.
C3_TlasWriteDeclaredBeforeBuild ==
    (FrameDone /\ EmitsTlasBuild(commands)) => frame.tlasWrite # "none"

\* C4, one step: no 'built' flag goes back to false; a flag that goes from
\* false to true does so in a BuildCommandList that reaches the loop and gives
\* every sub-mesh of the instance a Build; a BuildCommandList that reaches the
\* loop leaves every instance of the map built.
C4_Step ==
    \A a \in DOMAIN blasInstances \cap DOMAIN blasInstances' :
        LET before == blasInstances[a]
            after == blasInstances'[a]
        IN  /\ before.m_blasBuilt => after.m_blasBuilt
            /\ (~before.m_blasBuilt /\ after.m_blasBuilt)
                   => /\ pc = "build"
                      /\ EmitsTlasBuild(commands')
                      /\ InstanceOps(commands', a)
                            = [i \in 1..Len(before.m_subMeshes) |-> "BuildBlas"]
            /\ (pc = "build" /\ EmitsTlasBuild(commands')) => after.m_blasBuilt

\* C4: a BlasInstance's 'built' flag goes from false to true once, at the end of
\* the first frame whose BuildCommandList reaches the per-instance loop with
\* the instance in the map, skinned or not; every sub-mesh gets a Build in
\* that frame, and the pass never sets the flag back to false.
C4_BuiltOnceOnFirstProcessedFrame == [][C4_Step]_vars

\* C4's case: a frame has built a skinned and a non-skinned instance for the
\* first time
C4_Witness ==
    /\ FrameDone
    /\ \E a, b \in DOMAIN blasInstances :
          /\ blasInstances[a].m_isSkinnedMesh
          /\ ~blasInstances[b].m_isSkinnedMesh
          /\ \A c \in {a, b} :
                /\ ~AtFrameStart.blasInstances[c].m_blasBuilt
                /\ blasInstances[c].m_blasBuilt
                /\ Len(blasInstances[c].m_subMeshes) > 0

\* the command sub-mesh i of instance a got in frame k of its history
HistoryOp(a, k, i) ==
    IF i <= Len(history[a][k].ops) THEN history[a][k].ops[i] ELSE "none"

\* the frames of a's history that gave sub-mesh i the command op
FramesWithOp(a, i, op) ==
    {k \in 1..Len(history[a]) : HistoryOp(a, k, i) = op}

\* sub-mesh i got one Build and otherwise Updates over a's history
OneBuildOtherwiseUpdates(a, i) ==
    /\ Cardinality(FramesWithOp(a, i, "BuildBlas")) = 1
    /\ Cardinality(FramesWithOp(a, i, "UpdateBlas"))
          = SKINNED_BLAS_REBUILD_FRAME_INTERVAL - 1

\* the skinned instances with a full window of frames behind them
FullWindows ==
    {a \in DOMAIN history :
        /\ blasInstances[a].m_isSkinnedMesh
        /\ Len(history[a]) = SKINNED_BLAS_REBUILD_FRAME_INTERVAL}

\* C5 as claimed: over any SKINNED_BLAS_REBUILD_FRAME_INTERVAL consecutive frames
\* a sub-mesh of a skinned instance gets one Build and otherwise Updates.
C5_OneBuildInAnyWindow ==
    \A a \in FullWindows :
        \A i \in 1..Len(blasInstances[a].m_subMeshes) : OneBuildOtherwiseUpdates(a, i)

\* C5 amended: over SKINNED_BLAS_REBUILD_FRAME_INTERVAL consecutive frames that
\* all reach the per-instance loop, a sub-mesh of a skinned instance that was
\* built before the first of them gets one Build and otherwise Updates.
C5_OneBuildInWindowOfBuiltInstance ==
    \A a \in FullWindows :
        (/\ history[a][1].built
         /\ \A k \in 1..Len(history[a]) :
               Len(history[a][k].ops) = Len(blasInstances[a].m_subMeshes))
        => \A i \in 1..Len(blasInstances[a].m_subMeshes) : OneBuildOtherwiseUpdates(a, i)

\* C5's case: a built skinned instance with several sub-meshes has a full window
\* of processed frames behind it, over which the frame counter wrapped
C5_Witness ==
    /\ FrameDone
    /\ m_frameCount = 1
    /\ \E a \in FullWindows :
          /\ history[a][1].built
          /\ Len(blasInstances[a].m_subMeshes) > 1
          /\ \A k \in 1..Len(history[a]) :
                Len(history[a][k].ops) = Len(blasInstances[a].m_subMeshes)

\* C6: a frame whose BuildCommandList passes its guards with sub-meshes present
\* emits its BLAS commands first and then one TLAS build, its last command,
\* all under the frame counter of the frame's start, which is incremented once.
C6_BlasThenOneTlasThenCount ==
    (/\ FrameDone
     /\ hasFeatureProcessor
     /\ tlas.buffer
     /\ ~(/\ AtFrameStart.revision = AtFrameStart.m_rayTracingRevision
          /\ GetSkinnedMeshCount(AtFrameStart.blasInstances) = 0)
     /\ Len(subMeshes) # 0)
    => /\ commands # <<>>
       /\ commands[Len(commands)].op = "BuildTlas"
       /\ \A k \in 1..(Len(commands) - 1) : commands[k].op \in {"BuildBlas", "UpdateBlas"}
       /\ \A k \in 1..Len(commands) : commands[k].frameCount = AtFrameStart.m_frameCount
       /\ m_frameCount = (AtFrameStart.m_frameCount + 1) % FrameCountModulus

\* C6's case: a frame has emitted Builds and Updates of several instances and
\* the TLAS build
C6_Witness ==
    /\ FrameDone
    /\ EmitsTlasBuild(commands)
    /\ CommandsWithOp(commands, "BuildBlas") # <<>>
    /\ CommandsWithOp(commands, "UpdateBlas") # <<>>
    /\ \E j, k \in 1..Len(commands) :
          /\ commands[j].op # "BuildTlas"
          /\ commands[k].op # "BuildTlas"
          /\ commands[j].blas[1] # commands[k].blas[1]

\* C7: the descriptor the TLAS buffers of the frame were created from has one
\* instance per sub-mesh, the instance of the i-th sub-mesh (from 0) having
\* instance ID i and that sub-mesh's BLAS; no sub-mesh, no instance.
C7_DescriptorMatchesSubMeshes ==
    frame.tlasCreated
    => /\ Len(tlas.descriptor) = GetSubMeshCount(subMeshes)
       /\ \A i \in 1..Len(tlas.descriptor) :
             /\ tlas.descriptor[i].InstanceID = i - 1
             /\ tlas.descriptor[i].Blas = subMeshes[i].m_blas
       /\ (subMeshes = <<>> => tlas.descriptor = <<>>)

\* C7's case: the TLAS was created from the sub-meshes of more than one mesh
C7_Witness ==
    /\ frame.tlasCreated
    /\ Len(tlas.descriptor) > MaxSubMeshes
    /\ \E i, j \in 1..Len(subMeshes) : subMeshes[i].m_mesh # subMeshes[j].m_mesh

\* C8, one BuildCommandList: without a feature processor, without a TLAS buffer,
\* or with the revision unchanged and no skinned mesh, it emits nothing and
\* changes nothing; past those guards with no sub-mesh it emits nothing and
\* changes the last-processed revision alone, to the revision.
C8_Step ==
    pc = "build"
    => IF \/ ~hasFeatureProcessor
          \/ ~tlas.buffer
          \/ (revision = m_rayTracingRevision /\ GetSkinnedMeshCount(blasInstances) = 0)
       THEN /\ commands' = <<>>
            /\ UNCHANGED <<passVars, sceneVars, tlas, frame>>
       ELSE GetSubMeshCount(subMeshes) = 0
            => /\ commands' = <<>>
               /\ m_rayTracingRevision' = revision
               /\ UNCHANGED <<m_enabled, m_frameCount, sceneVars, tlas, frame>>

\* C8: the benign early exits of BuildCommandList emit no command and mutate
\* nothing, but for the last-processed revision on the no-sub-mesh exit.
C8_EarlyExitsEmitNothing == [][C8_Step]_vars

\* C8's case: BuildCommandList has left by the no-sub-mesh exit, the revision stored
C8_Witness ==
    /\ FrameDone
    /\ hasFeatureProcessor
    /\ tlas.buffer
    /\ AtFrameStart.revision # AtFrameStart.m_rayTracingRevision
    /\ subMeshes = <<>>
    /\ m_rayTracingRevision = revision
    /\ commands = <<>>

\* C9, one step: SetupFrameGraphDependencies and a BuildCommandList that emits no
\* TLAS build leave the frame counter alone; one that does adds one to it.
C9_Step ==
    /\ pc = "setup" => m_frameCount' = m_frameCount
    /\ pc = "build"
          => m_frameCount' =
                IF EmitsTlasBuild(commands')
                THEN (m_frameCount + 1) % FrameCountModulus
                ELSE m_frameCount

\* C9: the frame counter is the number of TLAS build commands emitted so far
\* (modulo its width); it moves by one in a frame that emits commands and in
\* no other.
C9_FrameCountCountsEmittingFrames ==
    [](m_frameCount = tlasBuildCount) /\ [][C9_Step]_vars

\* C9's case: the frame counter has wrapped around in an emitting frame
C9_Witness ==
    /\ FrameDone
    /\ EmitsTlasBuild(commands)
    /\ AtFrameStart.m_frameCount = FrameCountModulus - 1
    /\ m_frameCount = 0

\* the BLAS commands of the frame for instances already built and skinned at its
\* start
RebuildDecisions ==
    {k \in 1..Len(commands) :
        /\ commands[k].op # "BuildTlas"
        /\ AtFrameStart.blasInstances[commands[k].blas[1]].m_blasBuilt
        /\ AtFrameStart.blasInstances[commands[k].blas[1]].m_isSkinnedMesh}

\* the rebuild key of a BLAS command, as an integer
RebuildKey(c) == GetHash(c.blas[1]) + c.blas[2] + c.frameCount

\* C10: the command for a sub-mesh of a skinned instance that is already built
\* is a Build when (hash + index + frame counter) mod
\* SKINNED_BLAS_REBUILD_FRAME_INTERVAL is 0 and an Update otherwise, whatever
\* the revision, the other instances and the order of the map.
C10_RebuildDecisionIsKeyModInterval ==
    FrameDone
    => \A k \in RebuildDecisions :
          /\ commands[k].frameCount = AtFrameStart.m_frameCount
          /\ commands[k].op =
                IF RebuildKey(commands[k]) % SKINNED_BLAS_REBUILD_FRAME_INTERVAL = 0
                THEN "BuildBlas" ELSE "UpdateBlas"

\* C10's case: in one frame a built skinned instance got a Build on a key that
\* overflows size_t and an Update, next to another instance's commands
C10_Witness ==
    /\ FrameDone
    /\ \E j, k \in RebuildDecisions :
          /\ commands[j].op = "BuildBlas"
          /\ RebuildKey(commands[j]) >= SizeModulus
          /\ commands[k].op = "UpdateBlas"
    /\ \E j, k \in 1..Len(commands) :
          /\ commands[j].op # "BuildTlas"
          /\ commands[k].op # "BuildTlas"
          /\ commands[j].blas[1] # commands[k].blas[1]

\* the instances that were built and not skinned when the frame started
BuiltStaticAtFrameStart ==
    {a \in DOMAIN AtFrameStart.blasInstances :
        /\ AtFrameStart.blasInstances[a].m_blasBuilt
        /\ ~AtFrameStart.blasInstances[a].m_isSkinnedMesh}

\* C11: a frame emits no BLAS Build or Update for a sub-mesh of an instance that
\* is not skinned and was built when the frame started.
C11_BuiltStaticInstanceIsSkipped ==
    FrameDone => \A a \in BuiltStaticAtFrameStart : InstanceOps(commands, a) = <<>>

\* C11's case: a frame has emitted BLAS commands and the TLAS build next to a
\* built non-skinned instance with sub-meshes
C11_Witness ==
    /\ FrameDone
    /\ EmitsTlasBuild(commands)
    /\ Len(commands) > 1
    /\ \E a \in BuiltStaticAtFrameStart : Len(blasInstances[a].m_subMeshes) > 0

\* the frame's phase 1 has returned to the frame graph
SetupReturned == pc \in {"build", "done"}

\* C12: SetupFrameGraphDependencies does not go on past a fatal condition: it
\* never returns after a TLAS buffer import, a TLAS write declaration or a
\* skinning read declaration that failed.
C12_FatalConditionsHalt ==
    SetupReturned
    => /\ frame.tlasImport # "Fail"
       /\ frame.tlasWrite # "Fail"
       /\ frame.skinnedRead # "Fail"

\* C13 as claimed, one step: SetupFrameGraphDependencies leaves the BLAS instance
\* map, the TLAS and the revision as they are.
C13_SetupStepKeepsSharedState ==
    pc = "setup" => UNCHANGED <<blasInstances, tlas, revision>>

\* C13 as claimed: the pass mutates the feature processor's state in
\* BuildCommandList only.
C13_SharedStateMutatedInPhase2Only == [][C13_SetupStepKeepsSharedState]_vars

\* C13 amended, one step: SetupFrameGraphDependencies leaves the BLAS instance
\* map, the sub-meshes and the revision as they are and changes the TLAS only
\* when the revision differs from the last-processed one; BuildCommandList
\* leaves the TLAS, the sub-meshes, the revision and the keys of the map as
\* they are.
C13_Step ==
    /\ pc = "setup"
          => /\ UNCHANGED <<blasInstances, subMeshes, revision>>
             /\ tlas' # tlas => revision # m_rayTracingRevision
    /\ pc = "build"
          => /\ UNCHANGED <<tlas, subMeshes, revision>>
             /\ DOMAIN blasInstances' = DOMAIN blasInstances

\* C13 amended: the pass mutates the BLAS instance map in BuildCommandList only
\* and the revision never; SetupFrameGraphDependencies re-creates the TLAS
\* buffers, and only when the revision differs from the last-processed one.
C13_MapInPhase2TlasInPhase1 == [][C13_Step]_vars

\* C13's case: SetupFrameGraphDependencies has changed the TLAS and
\* BuildCommandList then the 'built' flags
C13_Witness ==
    /\ FrameDone
    /\ frame.tlasCreated
    /\ tlas # AtFrameStart.tlas
    /\ blasInstances # AtFrameStart.blasInstances

\* frames keep running: the pass is enabled and no frame has ended in a crash
FramesKeepRunning == m_enabled /\ pc # "halted"

\* the settled state: the revision is stored as processed and, while no skinned
\* mesh is present, no frame re-creates the TLAS or holds a command
Settled ==
    /\ m_rayTracingRevision = revision
    /\ GetSkinnedMeshCount(blasInstances) = 0
          => ~frame.tlasCreated /\ commands = <<>>

\* C14: the revision stops changing in the end (it is capped by MaxRevision);
\* if frames keep running the pass then reaches the settled state and stays
\* in it.
C14_EventuallySettled == <>[](FramesKeepRunning => Settled)

\* the same with the frames set aside in which the TLAS has no buffer
C14_SettledUnlessNoTlasBuffer == <>[](FramesKeepRunning /\ tlas.buffer => Settled)

\* the frame's SetupFrameGraphDependencies has made the call that declares the
\* read dependency on the skinning output
SkinnedReadDeclared == frame.skinnedRead # "none"

\* C15: in a frame whose SetupFrameGraphDependencies returns, the read
\* dependency on the skinning output is declared exactly when the skinned mesh
\* count is above zero, whatever the revision; a frame whose BuildCommandList
\* emits an Update has declared it.
C15_SkinnedReadDeclaredIffSkinned ==
    /\ SetupReturned
          => (SkinnedReadDeclared <=> GetSkinnedMeshCount(blasInstances) > 0)
    /\ (FrameDone /\ CommandsWithOp(commands, "UpdateBlas") # <<>>)
          => SkinnedReadDeclared

\* C15's case: the revision has not changed, an Update is emitted and the
\* read dependency is declared
C15_Witness ==
    /\ FrameDone
    /\ AtFrameStart.revision = AtFrameStart.m_rayTracingRevision
    /\ CommandsWithOp(commands, "UpdateBlas") # <<>>
    /\ SkinnedReadDeclared
    /\ ~frame.tlasCreated

\* C16: a frame whose SetupFrameGraphDependencies returns has triggered the
\* SRG update once if a feature processor is present and not at all otherwise;
\* the update found the TLAS and the declarations as the frame leaves them,
\* and no command of the frame was emitted before BuildCommandList.
C16_SrgUpdatedOnceAfterTlasBeforeCommands ==
    /\ SetupReturned
          => /\ frame.srgUpdates = (IF hasFeatureProcessor THEN 1 ELSE 0)
             /\ hasFeatureProcessor => frame.srgSaw = <<SrgView(tlas, frame)>>
             /\ ~hasFeatureProcessor => frame.srgSaw = <<>>
    /\ ~FrameDone => commands = <<>>

\* C16's case: the TLAS was re-created and both dependencies declared ahead
\* of the SRG update, and commands followed
C16_Witness ==
    /\ FrameDone
    /\ hasFeatureProcessor
    /\ frame.srgUpdates = 1
    /\ frame.tlasCreated
    /\ tlas # AtFrameStart.tlas
    /\ frame.tlasWrite # "none"
    /\ SkinnedReadDeclared
    /\ EmitsTlasBuild(commands)

\* C17: in a frame with a feature processor the TLAS is re-created exactly
\* when the revision differs from the last-processed one; the write dependency
\* is declared only after a re-creation that left a buffer, with a non-zero
\* sub-mesh count; the buffer is imported only when the attachment id was
\* found not to be registered.
C17_TlasRecreatedAndAttachedWhenNeeded ==
    (pc \in {"build", "done", "halted"} /\ hasFeatureProcessor)
    => /\ frame.tlasCreated
             <=> AtFrameStart.revision # AtFrameStart.m_rayTracingRevision
       /\ frame.tlasWrite # "none"
             => frame.tlasCreated /\ tlas.buffer /\ GetSubMeshCount(subMeshes) # 0
       /\ frame.tlasImport # "none"
             => /\ frame.tlasCreated /\ tlas.buffer /\ GetSubMeshCount(subMeshes) # 0
                /\ frame.tlasAttachmentQuery = "invalid"
       /\ frame.tlasAttachmentQuery = "valid" => frame.tlasImport = "none"

\* C17's case: the attachment id is registered already, so the re-created
\* buffer is not imported and the write dependency is declared
C17_Witness ==
    /\ SetupReturned
    /\ frame.tlasCreated
    /\ frame.tlasAttachmentQuery = "valid"
    /\ frame.tlasImport = "none"
    /\ frame.tlasWrite = "Success"

\* the instances the frame's Update commands are for
UpdatedInstances ==
    {a \in DOMAIN AtFrameStart.blasInstances : "UpdateBlas" \in Range(InstanceOps(commands, a))}

\* C18: an Update is emitted only for an instance that was skinned and had its
\* 'built' flag set when the frame started; an instance that is not skinned, or
\* is in its first processed frame, gets none.
C18_UpdateOnlyForBuiltSkinned ==
    FrameDone
    => /\ \A i \in DOMAIN commands :
             commands[i].op = "UpdateBlas"
             => /\ commands[i].blas[1] \in DOMAIN AtFrameStart.blasInstances
                /\ AtFrameStart.blasInstances[commands[i].blas[1]].m_isSkinnedMesh
                /\ AtFrameStart.blasInstances[commands[i].blas[1]].m_blasBuilt
       /\ \A a \in DOMAIN AtFrameStart.blasInstances :
             (~AtFrameStart.blasInstances[a].m_isSkinnedMesh
                 \/ ~AtFrameStart.blasInstances[a].m_blasBuilt)
             => a \notin UpdatedInstances

\* C18's case: one skinned instance gets an Update while another, skinned and
\* in its first processed frame, gets Builds only
C18_Witness ==
    /\ FrameDone
    /\ UpdatedInstances # {}
    /\ \E a \in DOMAIN AtFrameStart.blasInstances :
          /\ AtFrameStart.blasInstances[a].m_isSkinnedMesh
          /\ ~AtFrameStart.blasInstances[a].m_blasBuilt
          /\ InstanceOps(commands, a) # <<>>
          /\ Range(InstanceOps(commands, a)) = {"BuildBlas"}

\* C19: the scene changes between frames only and every change bumps the
\* revision; when BuildCommandList emits the TLAS build, the stored revision is
\* the current one and the TLAS was created from the descriptor of the current
\* sub-mesh sequence, so its instance count is the sub-mesh count.
C19_TlasBuiltFromCurrentSubMeshes ==
    (FrameDone /\ EmitsTlasBuild(commands))
    => /\ m_rayTracingRevision = revision
       /\ tlas.buffer
       /\ tlas.descriptor = BuildTlasDescriptor(subMeshes)
       /\ Len(tlas.descriptor) = GetSubMeshCount(subMeshes)

\* C19's case: the TLAS build is emitted in a frame that did not re-create the
\* TLAS, after the scene has changed twice
C19_Witness ==
    /\ FrameDone
    /\ EmitsTlasBuild(commands)
    /\ ~frame.tlasCreated
    /\ revision = MaxRevision
    /\ Len(tlas.descriptor) > 1

\* the instances the loop has work for, as the frame found them
WorkedAtFrameStart ==
    {a \in DOMAIN AtFrameStart.blasInstances :
        \/ ~AtFrameStart.blasInstances[a].m_blasBuilt
        \/ AtFrameStart.blasInstances[a].m_isSkinnedMesh}

\* the sub-mesh BLASes of the instances the loop has work for
WorkedBlases ==
    UNION {Range(AtFrameStart.blasInstances[a].m_subMeshes) : a \in WorkedAtFrameStart}

\* the number of commands of the list that are for the BLAS
CommandsFor(list, blas) ==
    Len(SelectSeq(list, LAMBDA c : c.op \in {"BuildBlas", "UpdateBlas"} /\ c.blas = blas))

\* C20: in a frame that reaches the loop, every sub-mesh BLAS of every instance
\* that is not built or is skinned gets exactly one command, a Build or an
\* Update; the BLAS commands of the frame are as many as those sub-meshes; an
\* instance without sub-meshes has its 'built' flag set and gets no command.
C20_OneCommandPerWorkedSubMesh ==
    (FrameDone /\ EmitsTlasBuild(commands))
    => /\ \A blas \in WorkedBlases : CommandsFor(commands, blas) = 1
       /\ Len(commands) - 1 = Cardinality(WorkedBlases)
       /\ \A a \in WorkedAtFrameStart :
             /\ blasInstances[a].m_blasBuilt
             /\ Len(InstanceOps(commands, a))
                    = Len(AtFrameStart.blasInstances[a].m_subMeshes)

\* C20's case: the loop works on an unbuilt instance without sub-meshes, and on
\* a skinned instance that is built already
C20_Witness ==
    /\ FrameDone
    /\ EmitsTlasBuild(commands)
    /\ \E a \in WorkedAtFrameStart :
          /\ AtFrameStart.blasInstances[a].m_subMeshes = <<>>
          /\ ~AtFrameStart.blasInstances[a].m_blasBuilt
          /\ blasInstances[a].m_blasBuilt
    /\ \E a \in WorkedAtFrameStart :
          /\ AtFrameStart.blasInstances[a].m_blasBuilt
          /\ Len(InstanceOps(commands, a)) = 2

====
